---- MODULE Spec2Model ----
(***************************************************************************)
(* Model of src/src/core/http.py: the Session Client (class Http), its     *)
(* debug capture (save_req / save_res on a Debugger) and the Retrying      *)
(* Fetcher (class SmartHTTP).                                              *)
(*                                                                         *)
(* Python values: None is PyNone; an Optional object is a sequence of      *)
(* length 0 (None) or 1 (the object); a dict over a fixed key set is a     *)
(* function whose missing keys map to Absent.  Header names are taken up   *)
(* to case, as requests' CaseInsensitiveDict identifies them.              *)
(***************************************************************************)
EXTENDS Integers, Sequences, FiniteSets, TLC

VARIABLES
    clients,    \* slot -> Optional[Http]: the Session Clients alive
    fetcher,    \* the SmartHTTP object: list_ua, list_px, http (a slot)
    dbg,        \* the Debugger shared by the clients: id counter and store
    fetch,      \* the http_get_html / http_get_json call in progress: its
                \* arguments, its place in the loop, the attempts made, the
                \* attempts whose transport raised (fails), the delays slept,
                \* the last value get() returned (got), how the call ended
                \* and the clients its attempts went through (via)
    last,       \* the last operation called directly: its arguments, what it
                \* raised or returned, and the debug ids it took
    disk,       \* path -> Optional[dict]: the cookie files written so far
    threads     \* thread -> the req call it is running, one step at a time

vars == <<clients, fetcher, dbg, fetch, last, disk, threads>>

----------------------------------------------------------------------------
(* Bounds *)

MaxRetry == 3       \* largest `retry` argument of a fetch call
MaxDebugId == 3     \* debug ids the recorder hands out in one run (SpecRecorder)
MaxCaptures == 1    \* debug captures of the client under test (SpecPerform)
MaxCalls == 2       \* debug-enabled req calls run step by step (SpecSteps, SpecThreads)

----------------------------------------------------------------------------
(* Python values *)

PyNone == "<None>"
Absent == "<absent>"
NoObj == << >>
Some(x) == << x >>
IsNone(o) == Len(o) = 0
Get(o) == o[1]

Range(s) == { s[i] : i \in 1..Len(s) }

----------------------------------------------------------------------------
(* Identities, headers, request options *)

\* the lines load_user_agent / load_proxy return, in file order
ListUa == <<"Mozilla/A", "Mozilla/B", "Mozilla/C">>
ListPx == <<"http://p1", "http://p2">>
UserAgents == Range(ListUa)
ProxyUrls == Range(ListPx)

HeaderKeys == {"User-Agent", "Content-Type", "Accept"}
CookieKeys == {"sid", "lang"}

Url == "http://host/"

\* h_data / h_json with utf8 = True (the default prepare_headers uses)
FormType == "application/x-www-form-urlencoded; charset=UTF-8"
JsonType == "application/json; charset=UTF-8"

\* headers of a fresh requests.Session()
SessionDefaultHeaders ==
    [k \in HeaderKeys |->
        CASE k = "User-Agent" -> "python-requests"
          [] k = "Accept" -> "*/*"
          [] OTHER -> Absent]

EmptyCookies == [k \in CookieKeys |-> Absent]
EmptyMap == [k \in {} |-> ""]

\* the `headers` keyword of a request: None, or a dict of overrides
OverrideValues == {"text/plain", PyNone}
OverrideDicts ==
    UNION { [ks -> OverrideValues] : ks \in (SUBSET {"Content-Type", "Accept"}) \ {{}} }
HeaderOptions == {NoObj} \cup { Some(d) : d \in OverrideDicts }

\* the keyword arguments of a request; PyNone marks a keyword not passed
OptionBags ==
    [json : {PyNone, "J"}, data : {PyNone, "D"}, headers : HeaderOptions,
     stream : BOOLEAN, timeout : {0, 5}]

NoOptions ==
    [json |-> PyNone, data |-> PyNone, headers |-> NoObj,
     stream |-> FALSE, timeout |-> 0]

DefaultTimeout == 30

----------------------------------------------------------------------------
(* class Http: construction and header access *)

\* mutant of HeaderSet: a value of None leaves the header as it is
HeaderSet_NoneKeeps(headers, key, value) ==
    IF value # PyNone
    THEN [headers EXCEPT ![key] = value]
    ELSE headers

\* Http.header_set
HeaderSet(headers, key, value) ==
    IF value # PyNone
    THEN [headers EXCEPT ![key] = value]
    ELSE IF headers[key] # Absent
         THEN [headers EXCEPT ![key] = Absent]
         ELSE headers

\* Http.header_get
HeaderGet(headers, key) ==
    IF key # "" /\ key \in HeaderKeys /\ headers[key] # Absent
    THEN IF headers[key] # "" THEN headers[key] ELSE ""
    ELSE ""

\* the client Http.__init__ builds once its assert has passed
NewClient(user_agent, proxy_url, timeout, logger, debugger, headers) ==
    [user_agent |-> user_agent,
     proxy_url |-> proxy_url,
     timeout |-> timeout,
     logger |-> logger,
     debugger |-> debugger,
     headers |-> headers,
     proxies |-> IF proxy_url # ""
                 THEN [s \in {"http", "https"} |-> proxy_url]
                 ELSE EmptyMap,
     cookies |-> EmptyCookies,
     data |-> NoObj]

\* mutant of HttpInit: the session headers are not updated with User-Agent
HttpInit_NoUserAgentHeader(user_agent, proxy_url, timeout, logger, debugger) ==
    IF user_agent = ""
    THEN [raised |-> "AssertionError", obj |-> NoObj]
    ELSE [raised |-> "",
          obj |-> Some(NewClient(user_agent, proxy_url, timeout, logger, debugger,
                                 SessionDefaultHeaders))]

\* mutant of HttpInit: no assert on user_agent
HttpInit_NoAssert(user_agent, proxy_url, timeout, logger, debugger) ==
    [raised |-> "",
     obj |-> Some(NewClient(user_agent, proxy_url, timeout, logger, debugger,
                            [SessionDefaultHeaders EXCEPT !["User-Agent"] = user_agent]))]

\* Http.__init__: [raised, obj]; the assert rejects an empty user_agent
HttpInit(user_agent, proxy_url, timeout, logger, debugger) ==
    IF user_agent = ""
    THEN [raised |-> "AssertionError", obj |-> NoObj]
    ELSE [raised |-> "",
          obj |-> Some(NewClient(user_agent, proxy_url, timeout, logger, debugger,
                        [SessionDefaultHeaders EXCEPT !["User-Agent"] = user_agent]))]

\* Http.prepare_headers: the session headers after the call
RECURSIVE ApplyOverrides(_, _)
ApplyOverrides(headers, dict) ==
    IF DOMAIN dict = {}
    THEN headers
    ELSE LET key == CHOOSE k \in DOMAIN dict : TRUE
             rest == [k \in (DOMAIN dict) \ {key} |-> dict[k]]
         IN ApplyOverrides(HeaderSet(headers, key, dict[key]), rest)

\* mutant of PrepareHeaders: the overrides are applied before the presets
PrepareHeaders_OverridesFirst(headers, opts) ==
    LET over == IF ~IsNone(opts.headers)
                THEN ApplyOverrides(headers, Get(opts.headers))
                ELSE headers
    IN IF opts.json # PyNone
       THEN HeaderSet(over, "Content-Type", JsonType)
       ELSE IF opts.data # PyNone
            THEN HeaderSet(over, "Content-Type", FormType)
            ELSE over

PrepareHeaders(headers, opts) ==
    LET typed == IF opts.json # PyNone
                 THEN HeaderSet(headers, "Content-Type", JsonType)
                 ELSE IF opts.data # PyNone
                      THEN HeaderSet(headers, "Content-Type", FormType)
                      ELSE headers
    IN IF ~IsNone(opts.headers)
       THEN ApplyOverrides(typed, Get(opts.headers))
       ELSE typed

----------------------------------------------------------------------------
(* class Http: the cookie jar and its file *)

\* self.client.cookies.set(key, value): a value of None removes the cookie
CookieSet(jar, key, value) ==
    IF value = PyNone
    THEN [jar EXCEPT ![key] = Absent]
    ELSE [jar EXCEPT ![key] = value]

\* mutant of CookieDict: only the first cookie set is kept
CookieDict_OneCookie(jar) ==
    LET names == { k \in CookieKeys : jar[k] # Absent }
    IN IF names = {}
       THEN EmptyMap
       ELSE [k \in {CHOOSE n \in names : TRUE} |-> jar[k]]

\* dict(self.client.cookies): the names the jar holds, with their values
CookieDict(jar) == [k \in { n \in CookieKeys : jar[n] # Absent } |-> jar[k]]

\* self.client.cookies.update(dict): each member is set in the jar
RECURSIVE JarUpdate(_, _)
JarUpdate(jar, dict) ==
    IF DOMAIN dict = {}
    THEN jar
    ELSE LET key == CHOOSE k \in DOMAIN dict : TRUE
             rest == [k \in (DOMAIN dict) \ {key} |-> dict[k]]
         IN JarUpdate(CookieSet(jar, key, dict[key]), rest)

\* IO.save_dict / IO.load_dict (src/base/io.py is not in the sources): a
\* key-value mapping written to a file as its members and read back from them
IOSaveDict(dict) == { <<k, dict[k]>> : k \in DOMAIN dict }
IOLoadDict(members) ==
    [k \in { m[1] : m \in members } |-> (CHOOSE m \in members : m[1] = k)[2]]

----------------------------------------------------------------------------
(* The transport (requests.Session.request) and its responses *)

StatusCodes == {200, 404, 500}

\* body texts, as token sequences
BodyObject == <<"{", "k", ":", "1", "}">>
BodyNotJson == <<"{", "not", "json">>
BodyHtml == <<"<html>">>
Bodies == {BodyObject, BodyNotJson, BodyHtml}

ResponseCookies == {EmptyCookies, [k \in CookieKeys |-> "s1"]}
ResponseHeaders == [k \in {"Server"} |-> "srv"]
NoHeaders == [k \in {"Server"} |-> Absent]

\* what one call of client.request does: a response, a RequestException
\* raised by the call, or (stream=True) a response whose body read raises
Outcomes ==
    [kind : {"response", "fail_read"}, code : StatusCodes, text : Bodies,
     cookies : ResponseCookies]
    \cup {[kind |-> "fail_dispatch", code |-> 0, text |-> << >>,
           cookies |-> EmptyCookies]}

ResponseOf(out) ==
    [code |-> out.code, text |-> out.text, url |-> Url,
     headers |-> ResponseHeaders, cookies |-> out.cookies,
     readable |-> out.kind = "response"]

\* Response.ok, which is also the truth value of a Response
Ok(response) == ~(400 <= response.code /\ response.code < 600)

\* json decoding of a body: objects of at most one member
IsJsonObject(text) ==
    /\ Len(text) >= 2
    /\ text[1] = "{"
    /\ text[Len(text)] = "}"
    /\ \/ Len(text) = 2
       \/ Len(text) = 5 /\ text[3] = ":"

JsonValue(text) == IF Len(text) = 2 THEN {} ELSE {<<text[2], text[4]>>}
EmptyDict == {}

\* the session's cookie jar after a response (requests merges Set-Cookie)
MergeCookies(jar, cookies) ==
    [k \in CookieKeys |-> IF cookies[k] # Absent THEN cookies[k] ELSE jar[k]]

----------------------------------------------------------------------------
(* The Debugger (src/base/debug.py is not in the sources): a counter that  *)
(* id_add advances and a store that save writes under the current id.      *)

DebugBase == 0

DebuggerIdAdd(d) == [d EXCEPT !.id = @ + 1]

DebuggerSave(d, data) ==
    [d EXCEPT !.store = [i \in (DOMAIN @) \cup {d.id} |->
                            IF i = d.id THEN data ELSE @[i]],
              !.saves = Append(@, d.id)]

----------------------------------------------------------------------------
(* class Http: debug capture and req *)

\* mutant of ZeroResponse: the status code starts at 0
ZeroResponse_NoCode ==
    [success |-> FALSE, code |-> 0, url |-> "", headers |-> NoHeaders,
     cookies |-> EmptyCookies, text |-> << >>, json |-> EmptyDict]

\* HttpResponse(time_stamp=...): the field defaults the dataclass declares.
\* (The dict defaults are written `= {}`, which dataclasses reject with a
\* ValueError when the class is created; the model takes the declared values.)
\* time_stamp is the clock's and is left out of the records.
ZeroResponse ==
    [success |-> FALSE, code |-> 200, url |-> "", headers |-> NoHeaders,
     cookies |-> EmptyCookies, text |-> << >>, json |-> EmptyDict]

\* mutant of SaveReq: the record is saved without id_add being called
SaveReq_NoIdAdd(c, d, method, debug, opts) ==
    IF debug /\ c.debugger
    THEN LET data == [req |-> [method |-> method, url |-> Url, params |-> opts,
                               headers |-> c.headers, cookies |-> c.cookies],
                      res |-> ZeroResponse]
         IN [c |-> [c EXCEPT !.data = Some(data)],
             d |-> DebuggerSave(d, data)]
    ELSE [c |-> c, d |-> d]

\* mutant of SaveReq: the debug flag is not looked at
SaveReq_AnyCall(c, d, method, debug, opts) ==
    IF c.debugger
    THEN LET data == [req |-> [method |-> method, url |-> Url, params |-> opts,
                               headers |-> c.headers, cookies |-> c.cookies],
                      res |-> ZeroResponse]
         IN [c |-> [c EXCEPT !.data = Some(data)],
             d |-> DebuggerSave(DebuggerIdAdd(d), data)]
    ELSE [c |-> c, d |-> d]

\* Http.save_req on client c with recorder d: [c, d]
SaveReq(c, d, method, debug, opts) ==
    IF debug /\ c.debugger
    THEN LET data == [req |-> [method |-> method, url |-> Url, params |-> opts,
                               headers |-> c.headers, cookies |-> c.cookies],
                      res |-> ZeroResponse]
         IN [c |-> [c EXCEPT !.data = Some(data)],
             d |-> DebuggerSave(DebuggerIdAdd(d), data)]
    ELSE [c |-> c, d |-> d]

\* mutant of SaveRes: the full record is saved under a new id
SaveRes_NewId(c, d, response, debug) ==
    IF debug /\ c.debugger
    THEN LET res == [success |-> Ok(response),
                     code |-> response.code,
                     url |-> response.url,
                     headers |-> response.headers,
                     cookies |-> response.cookies,
                     text |-> response.text,
                     json |-> IF IsJsonObject(response.text)
                              THEN JsonValue(response.text)
                              ELSE EmptyDict]
             data == [Get(c.data) EXCEPT !.res = res]
         IN [c |-> [c EXCEPT !.data = Some(data)],
             d |-> DebuggerSave(DebuggerIdAdd(d), data)]
    ELSE [c |-> c, d |-> d]

\* Http.save_res: [c, d]
SaveRes(c, d, response, debug) ==
    IF debug /\ c.debugger
    THEN LET res == [success |-> Ok(response),
                     code |-> response.code,
                     url |-> response.url,
                     headers |-> response.headers,
                     cookies |-> response.cookies,
                     text |-> response.text,
                     json |-> IF IsJsonObject(response.text)
                              THEN JsonValue(response.text)
                              ELSE EmptyDict]
             data == [Get(c.data) EXCEPT !.res = res]
         IN [c |-> [c EXCEPT !.data = Some(data)],
             d |-> DebuggerSave(d, data)]
    ELSE [c |-> c, d |-> d]

\* mutant of Req: save_req runs before prepare_headers
Req_CaptureFirst(c, d, method, debug, opts, out) ==
    LET c1 == [c EXCEPT !.headers = PrepareHeaders(c.headers, opts)]
        s0 == SaveReq(c, d, method, debug, opts)
        s == [c |-> [s0.c EXCEPT !.headers = c1.headers], d |-> s0.d]
        sent == [method |-> method, headers |-> c1.headers,
                 cookies |-> c1.cookies,
                 timeout |-> IF opts.timeout = 0 THEN c.timeout ELSE opts.timeout]
        response == ResponseOf(out)
        got == [s.c EXCEPT !.cookies = MergeCookies(@, out.cookies)]
    IN IF out.kind = "fail_dispatch"
       THEN \* client.request raised: `response` is still None
            IF s.c.logger
            THEN [c |-> s.c, d |-> s.d, ret |-> NoObj, raised |-> "", sent |-> sent]
            ELSE [c |-> s.c, d |-> s.d, ret |-> NoObj,
                  raised |-> "AttributeError", sent |-> sent]
       ELSE IF out.kind = "fail_read"
       THEN \* response.text raised inside the with block: `response` is bound
            IF s.c.logger
            THEN [c |-> got, d |-> s.d, ret |-> Some(response), raised |-> "",
                  sent |-> sent]
            ELSE [c |-> got, d |-> s.d, ret |-> NoObj,
                  raised |-> "AttributeError", sent |-> sent]
       ELSE IF ~s.c.logger
       THEN \* self.logger.info on None
            [c |-> got, d |-> s.d, ret |-> NoObj, raised |-> "AttributeError",
             sent |-> sent]
       ELSE LET r == SaveRes(got, s.d, response, debug)
            IN [c |-> r.c, d |-> r.d, ret |-> Some(response), raised |-> "",
                sent |-> sent]

\* mutant of Req: the session headers are put back before req returns
Req_RestoresHeaders(c, d, method, debug, opts, out) ==
    LET c1 == [c EXCEPT !.headers = PrepareHeaders(c.headers, opts)]
        s == SaveReq(c1, d, method, debug, opts)
        sent == [method |-> method, headers |-> c1.headers,
                 cookies |-> c1.cookies,
                 timeout |-> IF opts.timeout = 0 THEN c.timeout ELSE opts.timeout]
        response == ResponseOf(out)
        back == [s.c EXCEPT !.headers = c.headers]
        got == [back EXCEPT !.cookies = MergeCookies(@, out.cookies)]
    IN IF out.kind = "fail_dispatch"
       THEN \* client.request raised: `response` is still None
            IF s.c.logger
            THEN [c |-> back, d |-> s.d, ret |-> NoObj, raised |-> "", sent |-> sent]
            ELSE [c |-> back, d |-> s.d, ret |-> NoObj,
                  raised |-> "AttributeError", sent |-> sent]
       ELSE IF out.kind = "fail_read"
       THEN \* response.text raised inside the with block: `response` is bound
            IF s.c.logger
            THEN [c |-> got, d |-> s.d, ret |-> Some(response), raised |-> "",
                  sent |-> sent]
            ELSE [c |-> got, d |-> s.d, ret |-> NoObj,
                  raised |-> "AttributeError", sent |-> sent]
       ELSE IF ~s.c.logger
       THEN \* self.logger.info on None
            [c |-> got, d |-> s.d, ret |-> NoObj, raised |-> "AttributeError",
             sent |-> sent]
       ELSE LET r == SaveRes(got, s.d, response, debug)
            IN [c |-> r.c, d |-> r.d, ret |-> Some(response), raised |-> "",
                sent |-> sent]

\* Http.req with the transport doing `out`:
\* [c, d, ret (Optional response), raised, sent (what was dispatched)]
Req(c, d, method, debug, opts, out) ==
    LET c1 == [c EXCEPT !.headers = PrepareHeaders(c.headers, opts)]
        s == SaveReq(c1, d, method, debug, opts)
        sent == [method |-> method, headers |-> c1.headers,
                 cookies |-> c1.cookies,
                 timeout |-> IF opts.timeout = 0 THEN c.timeout ELSE opts.timeout]
        response == ResponseOf(out)
        got == [s.c EXCEPT !.cookies = MergeCookies(@, out.cookies)]
    IN IF out.kind = "fail_dispatch"
       THEN \* client.request raised: `response` is still None
            IF s.c.logger
            THEN [c |-> s.c, d |-> s.d, ret |-> NoObj, raised |-> "", sent |-> sent]
            ELSE [c |-> s.c, d |-> s.d, ret |-> NoObj,
                  raised |-> "AttributeError", sent |-> sent]
       ELSE IF out.kind = "fail_read"
       THEN \* response.text raised inside the with block: `response` is bound
            IF s.c.logger
            THEN [c |-> got, d |-> s.d, ret |-> Some(response), raised |-> "",
                  sent |-> sent]
            ELSE [c |-> got, d |-> s.d, ret |-> NoObj,
                  raised |-> "AttributeError", sent |-> sent]
       ELSE IF ~s.c.logger
       THEN \* self.logger.info on None
            [c |-> got, d |-> s.d, ret |-> NoObj, raised |-> "AttributeError",
             sent |-> sent]
       ELSE LET r == SaveRes(got, s.d, response, debug)
            IN [c |-> r.c, d |-> r.d, ret |-> Some(response), raised |-> "",
                sent |-> sent]

----------------------------------------------------------------------------
(* class SmartHTTP *)

\* the parameters Http.__init__ declares and the keywords new_http passes
HttpInitParams == {"user_agent", "proxy_url", "timeout", "logger", "debugger"}
NewHttpKeywords == {"user_agent", "proxy_url", "timeou", "logger", "debugger"}

\* SmartHTTP.new_http: a keyword Http.__init__ does not declare is a TypeError
NewHttp(f, user_agent, proxy_url) ==
    IF NewHttpKeywords \subseteq HttpInitParams
    THEN HttpInit(user_agent, proxy_url, f.timeout, f.logger, f.debugger)
    ELSE [raised |-> "TypeError", obj |-> NoObj]

\* SmartHTTP.rnd_http with random.choice picking positions i and j
RndHttpResult(f, i, j) == NewHttp(f, f.list_ua[i], f.list_px[j])

\* SmartHTTP.default_http
DefaultHttpResult(f) == NewHttp(f, f.list_ua[1], f.list_px[1])

\* mutant of FetchClient: the attempts go through another client
FetchClient_Other(f) == "direct"

\* the client an attempt is made through: self.http
FetchClient(f) == f.http

\* what a fetch returns when its attempts are used up
EmptyResult(kind) == IF kind = "html" THEN << >> ELSE EmptyDict

\* one pass of the loop body of http_get_html / http_get_json with the
\* transport doing `out`: the Req result and how the pass ends.
\* `with None` raises TypeError (AttributeError before Python 3.11); json()
\* raises requests' JSONDecodeError, a RequestException since requests 2.27
\* (before that a ValueError no handler here catches).
FetchPass(kind, debug, c, d, out) ==
    LET r == Req(c, d, "GET", debug, NoOptions, out)
    IN IF r.raised # ""
       THEN [r |-> r, next |-> "done", raised |-> r.raised, result |-> NoObj]
       ELSE IF IsNone(r.ret)
       THEN \* `with None as response`: not a context manager
            [r |-> r, next |-> "done", raised |-> "TypeError", result |-> NoObj]
       ELSE IF ~Ok(Get(r.ret))
       THEN \* `if response:` is False for a 4xx/5xx response
            [r |-> r, next |-> "sleep", raised |-> "", result |-> NoObj]
       ELSE IF kind = "html"
       THEN [r |-> r, next |-> "done", raised |-> "",
             result |-> Some(Get(r.ret).text)]
       ELSE IF IsJsonObject(Get(r.ret).text)
       THEN [r |-> r, next |-> "done", raised |-> "",
             result |-> Some(JsonValue(Get(r.ret).text))]
       ELSE \* response.json() raises requests' JSONDecodeError, a RequestException
            IF debug
            THEN [r |-> r, next |-> "done", raised |-> "JSONDecodeError",
                  result |-> NoObj]
            ELSE [r |-> r, next |-> "sleep", raised |-> "", result |-> NoObj]

----------------------------------------------------------------------------
(* State *)

Slots == {"default", "direct", "rotated"}

NoFetch ==
    [pc |-> "idle", kind |-> "html", debug |-> FALSE, retry |-> 0,
     attempts |-> 0, fails |-> 0, sleeps |-> 0, got |-> NoObj,
     raised |-> "", result |-> NoObj, exhausted |-> FALSE, via |-> {}]

NoOutcome ==
    [kind |-> "none", code |-> 0, text |-> << >>, cookies |-> EmptyCookies]

\* key, value: the arguments of a header or cookie call; text: the string a
\* getter returned; before: the session headers when req was entered; sent:
\* what req handed to client.request
NoLast ==
    [op |-> "none", slot |-> "none", raised |-> "", ret |-> NoObj,
     debug |-> FALSE, opts |-> NoOptions, out |-> NoOutcome,
     ua |-> "", px |-> "", ids |-> 0,
     key |-> "", value |-> PyNone, text |-> "", before |-> NoObj, sent |-> NoObj]

\* the threads that call req, and the cookie files
Threads == {"t1", "t2"}
Paths == {"cookies.json"}

\* a thread's req call: the client it runs on, its place in req, the debug id
\* id_add gave it, the record save_req built (after save_res: the full
\* record), the request half save_req persisted and the response it got
NoThread ==
    [pc |-> "idle", slot |-> "none", id |-> DebugBase, captured |-> NoObj,
     persisted |-> NoObj, response |-> NoObj]

Idle ==
    /\ fetch.pc \in {"idle", "done"}
    /\ \A t \in Threads : threads[t].pc \in {"idle", "done"}

\* The fetcher holds its identity lists and its default client.  The default
\* client is the one Http.__init__ builds from the first identity pair, which
\* default_http is written to return (NewHttp itself cannot build it).
Init ==
    /\ \E debugger \in BOOLEAN :
         /\ fetcher = [list_ua |-> ListUa, list_px |-> ListPx,
                       timeout |-> DefaultTimeout, logger |-> TRUE,
                       debugger |-> debugger, http |-> "default"]
         /\ clients = [s \in Slots |->
                         IF s = "default"
                         THEN HttpInit(ListUa[1], ListPx[1], DefaultTimeout, TRUE,
                                       debugger).obj
                         ELSE NoObj]
    /\ dbg = [id |-> DebugBase, store |-> EmptyMap, saves |-> << >>]
    /\ fetch = NoFetch
    /\ last = NoLast
    /\ disk = [p \in Paths |-> NoObj]
    /\ threads = [t \in Threads |-> NoThread]

\* room for the debug ids `n` more debug-enabled requests of client c take
IdsLeft(c, debug, n, max) ==
    (debug /\ c.debugger) => dbg.id + n <= DebugBase + max

----------------------------------------------------------------------------
(* Operations on Session Clients *)

\* h = Http(user_agent, proxy_url, logger=..., debugger=...)
Construct(ua, px, logger, debugger) ==
    /\ Idle
    /\ LET made == HttpInit(ua, px, DefaultTimeout, logger, debugger)
       IN /\ clients' = IF made.raised = ""
                        THEN [clients EXCEPT !["direct"] = made.obj]
                        ELSE clients
          /\ last' = [NoLast EXCEPT !.op = "Http", !.slot = "direct",
                                    !.raised = made.raised, !.ua = ua, !.px = px]
    /\ UNCHANGED <<fetcher, dbg, fetch, disk, threads>>

\* h = smart.rnd_http()
RndHttp(i, j) ==
    /\ Idle
    /\ LET made == RndHttpResult(fetcher, i, j)
       IN /\ clients' = IF made.raised = ""
                        THEN [clients EXCEPT !["rotated"] = made.obj]
                        ELSE clients
          /\ last' = [NoLast EXCEPT !.op = "rnd_http", !.slot = "rotated",
                                    !.raised = made.raised]
    /\ UNCHANGED <<fetcher, dbg, fetch, disk, threads>>

\* smart.http = smart.default_http(), the last statement of SmartHTTP.__init__
DefaultHttp ==
    /\ Idle
    /\ LET made == DefaultHttpResult(fetcher)
       IN /\ clients' = IF made.raised = ""
                        THEN [clients EXCEPT !["default"] = made.obj]
                        ELSE clients
          /\ last' = [NoLast EXCEPT !.op = "default_http", !.slot = "default",
                                    !.raised = made.raised]
    /\ UNCHANGED <<fetcher, dbg, fetch, disk, threads>>

\* h.prepare_headers(**opts)
PrepareHeadersCall(s, opts) ==
    /\ Idle
    /\ ~IsNone(clients[s])
    /\ clients' = [clients EXCEPT ![s] =
                      Some([Get(@) EXCEPT !.headers = PrepareHeaders(@, opts)])]
    /\ last' = [NoLast EXCEPT !.op = "prepare_headers", !.slot = s, !.opts = opts]
    /\ UNCHANGED <<fetcher, dbg, fetch, disk, threads>>

\* h.header_set(key, value)
HeaderSetCall(s, key, value) ==
    /\ Idle
    /\ ~IsNone(clients[s])
    /\ clients' = [clients EXCEPT ![s] =
                      Some([Get(@) EXCEPT !.headers = HeaderSet(@, key, value)])]
    /\ last' = [NoLast EXCEPT !.op = "header_set", !.slot = s, !.key = key,
                              !.value = value,
                              !.before = Some(Get(clients[s]).headers)]
    /\ UNCHANGED <<fetcher, dbg, fetch, disk, threads>>

\* h.header_get(key)
HeaderGetCall(s, key) ==
    /\ Idle
    /\ ~IsNone(clients[s])
    /\ last' = [NoLast EXCEPT !.op = "header_get", !.slot = s, !.key = key,
                              !.text = HeaderGet(Get(clients[s]).headers, key)]
    /\ UNCHANGED <<clients, fetcher, dbg, fetch, disk, threads>>

\* h.cookie_set(key, value)
CookieSetCall(s, key, value) ==
    /\ Idle
    /\ ~IsNone(clients[s])
    /\ clients' = [clients EXCEPT ![s] =
                      Some([Get(@) EXCEPT !.cookies = CookieSet(@, key, value)])]
    /\ last' = [NoLast EXCEPT !.op = "cookie_set", !.slot = s, !.key = key,
                              !.value = value]
    /\ UNCHANGED <<fetcher, dbg, fetch, disk, threads>>

\* h.cookie_save(file_cookie); `jar` keeps the mapping the saving client
\* held, for comparison with what a later load gives
CookieSaveCall(s, path) ==
    /\ Idle
    /\ ~IsNone(clients[s])
    /\ disk' = [disk EXCEPT ![path] =
                   Some([members |-> IOSaveDict(CookieDict(Get(clients[s]).cookies)),
                         jar |-> Get(clients[s]).cookies])]
    /\ last' = [NoLast EXCEPT !.op = "cookie_save", !.slot = s, !.key = path]
    /\ UNCHANGED <<clients, fetcher, dbg, fetch, threads>>

\* h.cookie_load(file_cookie): nothing is done unless the file exists
CookieLoadCall(s, path) ==
    /\ Idle
    /\ ~IsNone(clients[s])
    /\ clients' = IF IsNone(disk[path])
                  THEN clients
                  ELSE [clients EXCEPT ![s] =
                          Some([Get(@) EXCEPT !.cookies =
                                  JarUpdate(@, IOLoadDict(Get(disk[path]).members))])]
    /\ last' = [NoLast EXCEPT !.op = "cookie_load", !.slot = s, !.key = path,
                              !.before = Some(Get(clients[s]).cookies)]
    /\ UNCHANGED <<fetcher, dbg, fetch, disk, threads>>

\* h.req(method, url, debug, **opts), the transport doing `out`; `max` bounds
\* the debug ids of the run
Perform(s, method, debug, opts, out, max) ==
    /\ Idle
    /\ ~IsNone(clients[s])
    /\ out.kind = "fail_read" => opts.stream
    /\ IdsLeft(Get(clients[s]), debug, 1, max)
    /\ LET r == Req(Get(clients[s]), dbg, method, debug, opts, out)
       IN /\ clients' = [clients EXCEPT ![s] = Some(r.c)]
          /\ dbg' = r.d
          /\ last' = [NoLast EXCEPT !.op = "req", !.slot = s, !.raised = r.raised,
                                    !.ret = r.ret, !.debug = debug, !.opts = opts,
                                    !.out = out, !.ids = r.d.id - dbg.id,
                                    !.before = Some(Get(clients[s]).headers),
                                    !.sent = Some(r.sent)]
    /\ UNCHANGED <<fetcher, fetch, disk, threads>>

----------------------------------------------------------------------------
(* req(debug=True) of a thread, one statement at a time, on a client that  *)
(* has a logger and a recorder.  A client runs one call at a time; calls   *)
(* on different clients interleave.                                        *)

Running(t) == threads[t].pc \notin {"idle", "done"}

\* prepare_headers, then the first statement of save_req: self.data is built
ThreadCapture(t, s) ==
    /\ fetch.pc \in {"idle", "done"}
    /\ ~Running(t)
    /\ ~IsNone(clients[s])
    /\ Get(clients[s]).debugger /\ Get(clients[s]).logger
    /\ \A u \in Threads : Running(u) => threads[u].slot # s
    /\ dbg.id + Cardinality({ u \in Threads : threads[u].pc = "id_add" }) + 1
         <= DebugBase + MaxCalls
    /\ LET c == Get(clients[s])
           c1 == [c EXCEPT !.headers = PrepareHeaders(c.headers, NoOptions)]
           made == SaveReq(c1, dbg, "GET", TRUE, NoOptions).c
       IN /\ clients' = [clients EXCEPT ![s] = Some(made)]
          /\ threads' = [threads EXCEPT ![t] =
                            [NoThread EXCEPT !.pc = "id_add", !.slot = s,
                                             !.captured = made.data]]
    /\ UNCHANGED <<fetcher, dbg, fetch, last, disk>>

\* self.debugger.id_add(): the id this call is given
ThreadIdAdd(t) ==
    /\ threads[t].pc = "id_add"
    /\ dbg' = DebuggerIdAdd(dbg)
    /\ threads' = [threads EXCEPT ![t].pc = "save_req", ![t].id = dbg'.id]
    /\ UNCHANGED <<clients, fetcher, fetch, last, disk>>

\* self.debugger.save(data=asdict(self.data)), the last statement of save_req
ThreadSaveReq(t) ==
    /\ threads[t].pc = "save_req"
    /\ dbg' = DebuggerSave(dbg, Get(Get(clients[threads[t].slot]).data))
    /\ threads' = [threads EXCEPT ![t].pc = "dispatch",
                                  ![t].persisted = Some(dbg'.store[dbg.id].req)]
    /\ UNCHANGED <<clients, fetcher, fetch, last, disk>>

\* self.client.request(...) doing `out`; a failure is logged and req returns
ThreadDispatch(t, out) ==
    /\ threads[t].pc = "dispatch"
    /\ out.kind \in {"response", "fail_dispatch"}
    /\ IF out.kind = "fail_dispatch"
       THEN /\ threads' = [threads EXCEPT ![t].pc = "done"]
            /\ UNCHANGED clients
       ELSE /\ threads' = [threads EXCEPT ![t].pc = "save_res",
                                          ![t].response = Some(ResponseOf(out))]
            /\ clients' = [clients EXCEPT ![threads[t].slot] =
                              Some([Get(@) EXCEPT !.cookies =
                                      MergeCookies(@, out.cookies)])]
    /\ UNCHANGED <<fetcher, dbg, fetch, last, disk>>

\* save_res(response), then req returns the response; `captured` becomes the
\* full record of the call
ThreadSaveRes(t) ==
    /\ threads[t].pc = "save_res"
    /\ LET r == SaveRes(Get(clients[threads[t].slot]), dbg,
                        Get(threads[t].response), TRUE)
       IN /\ clients' = [clients EXCEPT ![threads[t].slot] = Some(r.c)]
          /\ dbg' = r.d
          /\ threads' = [threads EXCEPT ![t].pc = "done",
                                        ![t].captured = r.c.data]
    /\ UNCHANGED <<fetcher, fetch, last, disk>>

----------------------------------------------------------------------------
(* http_get_html / http_get_json, one loop pass at a time *)

\* get() passes no stream keyword: the body is read inside client.request
FetchOutcomes ==
    { out \in Outcomes :
        \/ out.kind = "fail_dispatch"
        \/ /\ out.kind = "response"
           /\ out.cookies = EmptyCookies
           /\ <<out.code, out.text>> \in
                {<<200, BodyObject>>, <<200, BodyNotJson>>, <<404, BodyNotJson>>} }

\* the call is made: the loop is entered
FetchStart(kind, debug, retry) ==
    /\ Idle
    /\ ~IsNone(clients[FetchClient(fetcher)])
    /\ IdsLeft(Get(clients[FetchClient(fetcher)]), debug, retry, MaxRetry)
    /\ fetch' = [NoFetch EXCEPT !.pc = "loop", !.kind = kind, !.debug = debug,
                                !.retry = retry]
    /\ UNCHANGED <<clients, fetcher, dbg, last, disk, threads>>

\* the body of the for loop up to the delay
FetchAttempt(out) ==
    /\ fetch.pc = "loop"
    /\ fetch.attempts < fetch.retry
    /\ LET via == FetchClient(fetcher)
           p == FetchPass(fetch.kind, fetch.debug, Get(clients[via]), dbg, out)
       IN /\ clients' = [clients EXCEPT ![via] = Some(p.r.c)]
          /\ dbg' = p.r.d
          /\ fetch' = [fetch EXCEPT !.pc = p.next, !.attempts = @ + 1,
                                    !.via = @ \cup {via},
                                    !.fails = IF out.kind = "response"
                                              THEN @ ELSE @ + 1,
                                    !.got = p.r.ret, !.raised = p.raised,
                                    !.result = p.result]
    /\ UNCHANGED <<fetcher, last, disk, threads>>

\* self.utils.smart_delay(2), then the next pass
FetchSleep ==
    /\ fetch.pc = "sleep"
    /\ fetch' = [fetch EXCEPT !.pc = "loop", !.sleeps = @ + 1]
    /\ UNCHANGED <<clients, fetcher, dbg, last, disk, threads>>

\* range(retry) is used up: return "" / {}
FetchExhausted ==
    /\ fetch.pc = "loop"
    /\ fetch.attempts >= fetch.retry
    /\ fetch' = [fetch EXCEPT !.pc = "done", !.exhausted = TRUE,
                              !.result = Some(EmptyResult(fetch.kind))]
    /\ UNCHANGED <<clients, fetcher, dbg, last, disk, threads>>

----------------------------------------------------------------------------
(* Specifications: the client operations, the requests of one client, and  *)
(* the fetches of the fetcher                                              *)

\* the options prepare_headers reads
HeaderBags == { o \in OptionBags : ~o.stream /\ o.timeout = 0 }

\* the values header_set is given, and the names header_get is asked for:
\* the empty name and a name no session carries among them
SetValues == {"text/plain", PyNone}
GetKeys == HeaderKeys \cup {"", "X-Missing"}

NextClient ==
    \/ \E ua \in UserAgents \cup {""}, px \in ProxyUrls \cup {""},
          debugger \in BOOLEAN :
         Construct(ua, px, TRUE, debugger)
    \/ \E i \in 1..Len(fetcher.list_ua), j \in 1..Len(fetcher.list_px) :
         RndHttp(i, j)
    \/ DefaultHttp
    \/ \E opts \in HeaderBags : PrepareHeadersCall("direct", opts)
    \/ \E key \in HeaderKeys, value \in SetValues : HeaderSetCall("direct", key, value)
    \/ \E key \in GetKeys : HeaderGetCall("direct", key)

SpecClient == Init /\ [][NextClient]_vars

\* cookies set on two clients, saved and loaded
CookieValues == {"a", "", PyNone}

NextCookies ==
    \/ \E debugger \in BOOLEAN : Construct(ListUa[2], "", TRUE, debugger)
    \/ \E s \in {"default", "direct"}, key \in CookieKeys, value \in CookieValues :
         CookieSetCall(s, key, value)
    \/ \E s \in {"default", "direct"}, path \in Paths : CookieSaveCall(s, path)
    \/ \E s \in {"default", "direct"}, path \in Paths : CookieLoadCall(s, path)

SpecCookies == Init /\ [][NextCookies]_vars

\* the requests made of the client under test
RequestBags ==
    {NoOptions,
     [NoOptions EXCEPT !.json = "J"],
     [NoOptions EXCEPT !.headers = Some([k \in {"Content-Type"} |-> "text/plain"])],
     [NoOptions EXCEPT !.stream = TRUE]}

RequestOutcomes ==
    { out \in Outcomes :
        \/ out.kind = "fail_dispatch"
        \/ /\ out.kind = "response"
           /\ <<out.code, out.text, out.cookies["sid"]>> \in
                {<<200, BodyObject, "s1">>, <<404, BodyNotJson, Absent>>}
        \/ /\ out.kind = "fail_read"
           /\ <<out.code, out.text, out.cookies["sid"]>> = <<200, BodyHtml, Absent>> }

\* requests of the fetcher's default client, which has a logger
NextPerform ==
    \E debug \in BOOLEAN, opts \in RequestBags, out \in RequestOutcomes :
      Perform("default", "POST", debug, opts, out, MaxCaptures)

SpecPerform == Init /\ [][NextPerform]_vars

\* sequences of plain requests on two clients that share the recorder
PlainOutcomes ==
    { out \in Outcomes :
        \/ out.kind = "fail_dispatch"
        \/ /\ out.kind = "response"
           /\ <<out.code, out.text, out.cookies["sid"]>> = <<200, BodyHtml, Absent>> }

NextRecorder ==
    \/ \E logger \in BOOLEAN, debugger \in BOOLEAN :
         Construct(ListUa[2], "", logger, debugger)
    \/ \E s \in {"default", "direct"}, debug \in BOOLEAN, out \in PlainOutcomes :
         Perform(s, "GET", debug, NoOptions, out, MaxDebugId)

SpecRecorder == Init /\ [][NextRecorder]_vars

\* what the transport does to a call without the stream keyword
StepOutcomes == { out \in RequestOutcomes : out.kind # "fail_read" }

\* the statements of req calls made by the threads in `ts` on two clients
\* attached to the fetcher's recorder
NextCalls(ts) ==
    \/ Construct(ListUa[2], "", TRUE, TRUE)
    \/ \E t \in ts, s \in {"default", "direct"} : ThreadCapture(t, s)
    \/ \E t \in ts : ThreadIdAdd(t)
    \/ \E t \in ts : ThreadSaveReq(t)
    \/ \E t \in ts, out \in StepOutcomes : ThreadDispatch(t, out)
    \/ \E t \in ts : ThreadSaveRes(t)

\* one thread: the calls follow one another
NextSteps == NextCalls({"t1"})

SpecSteps == Init /\ [][NextSteps]_vars

\* two threads: the calls interleave
NextThreads == NextCalls(Threads)

SpecThreads == Init /\ [][NextThreads]_vars

\* fetches of the fetcher, beside a client constructed directly
NextFetch ==
    \/ Construct(ListUa[2], "", TRUE, FALSE)
    \/ \E kind \in {"html", "json"}, debug \in BOOLEAN, retry \in 0..MaxRetry :
         FetchStart(kind, debug, retry)
    \/ \E out \in FetchOutcomes : FetchAttempt(out)
    \/ FetchSleep
    \/ FetchExhausted

SpecFetch == Init /\ [][NextFetch]_vars

----------------------------------------------------------------------------
(* Claims about http_get_html / http_get_json (SpecFetch) *)

\* the class of the errors client.request raises
TransportError == "RequestException"

\* C1: http_get_html with debug = False, every attempt of which met a
\* transport failure, does not raise: once it has ended it has made exactly
\* `retry` attempts and returned the empty string.
C1_AllFailReturnsEmpty ==
    (/\ fetch.pc = "done"
     /\ fetch.kind = "html"
     /\ ~fetch.debug
     /\ fetch.fails = fetch.attempts)
    => (/\ fetch.raised = ""
        /\ fetch.attempts = fetch.retry
        /\ fetch.result = Some(<< >>))

\* C2: http_get_html with debug = True whose first attempt met a transport
\* failure ends at once by raising that transport error: one attempt, no
\* delay, no retry.
C2_DebugPropagatesTransportError ==
    (/\ fetch.kind = "html"
     /\ fetch.debug
     /\ fetch.attempts = 1
     /\ fetch.fails = 1)
    => (/\ fetch.pc = "done"
        /\ fetch.raised = TransportError
        /\ fetch.sleeps = 0)

\* C3: in http_get_html, once the GET of an attempt has returned a response,
\* whatever its status code, the call has ended returning that response's
\* body: no delay follows and no further attempt is made.
C3_ResponseEndsFetch ==
    (/\ fetch.kind = "html"
     /\ fetch.pc # "idle"
     /\ ~IsNone(fetch.got))
    => (/\ fetch.pc = "done"
        /\ fetch.raised = ""
        /\ fetch.result = Some(Get(fetch.got).text))

\* C5: http_get_json that ended on a response whose body is not valid JSON
\* has returned {} without raising, whatever debug is; and it has returned
\* {} when its attempts were used up.
C5_BadJsonReturnsEmpty ==
    /\ (/\ fetch.kind = "json"
        /\ fetch.pc = "done"
        /\ ~IsNone(fetch.got)
        /\ Ok(Get(fetch.got))
        /\ ~IsJsonObject(Get(fetch.got).text))
       => (fetch.raised = "" /\ fetch.result = Some(EmptyDict))
    /\ (fetch.kind = "json" /\ fetch.exhausted)
       => (fetch.raised = "" /\ fetch.result = Some(EmptyDict))

\* C14: http_get_html with debug = False and retry >= 1 delays only between
\* attempts: no delay is slept once the last attempt has been made, and a
\* call whose attempts were all used up has slept retry - 1 delays.
C14_DelaysBetweenAttempts ==
    (fetch.kind = "html" /\ ~fetch.debug /\ fetch.retry >= 1)
    => (/\ fetch.pc = "sleep" => fetch.attempts < fetch.retry
        /\ fetch.exhausted => fetch.sleeps = fetch.retry - 1)

\* C20: every attempt of a fetch goes through the fetcher's default client:
\* no attempt uses another client, no rotated client is built, and the
\* fetcher's default client reference and identity lists stay what they were
\* at construction.
C20_DefaultClientOnly ==
    /\ fetch.via \subseteq {"default"}
    /\ fetch.attempts > 0 => fetch.via = {fetcher.http}
    /\ IsNone(clients["rotated"])
    /\ fetcher.http = "default"
    /\ fetcher.list_ua = ListUa
    /\ fetcher.list_px = ListPx

C20_Witness ==
    /\ fetch.exhausted
    /\ fetch.attempts = 3
    /\ fetch.via = {"default"}
    /\ ~IsNone(clients["direct"])
    /\ Get(clients["direct"]).data = NoObj
    /\ Get(clients["default"]).user_agent = ListUa[1]

----------------------------------------------------------------------------
(* Claims about the client operations (SpecClient) *)

\* C7: rnd_http returns a Session Client whose user agent is a member of the
\* loaded user-agent list and whose proxy URL is a member of the proxy list.
C7_RndHttpFromLists ==
    last.op = "rnd_http"
    => (/\ last.raised = ""
        /\ ~IsNone(clients["rotated"])
        /\ Get(clients["rotated"]).user_agent \in Range(fetcher.list_ua)
        /\ Get(clients["rotated"]).proxy_url \in Range(fetcher.list_px))

\* C8: constructing a Session Client with a non-empty user agent succeeds,
\* and header_get("User-Agent") on the fresh client is that string.
C8_UserAgentHeader ==
    (last.op = "Http" /\ last.ua # "")
    => (/\ last.raised = ""
        /\ ~IsNone(clients["direct"])
        /\ Get(clients["direct"]).user_agent = last.ua
        /\ HeaderGet(Get(clients["direct"]).headers, "User-Agent") = last.ua)

C8_Witness ==
    /\ last.op = "Http"
    /\ last.ua = "Mozilla/B"
    /\ last.raised = ""
    /\ HeaderGet(Get(clients["direct"]).headers, "User-Agent") = "Mozilla/B"

\* C9: a construction with an empty user agent fails with the assertion
\* error and produces no client: the clients are what they were.
C9_EmptyUserAgentRejected ==
    [][(last'.op = "Http" /\ last'.ua = "")
       => (last'.raised = "AssertionError" /\ clients' = clients)]_vars

C9_Witness ==
    /\ last.op = "Http"
    /\ last.ua = ""
    /\ last.raised = "AssertionError"
    /\ ~IsNone(clients["direct"])

\* the session value an override leaves: None removes the header
Overridden(value) == IF value = PyNone THEN Absent ELSE value

\* C10: after prepare_headers every explicit override is the session's value
\* of its header; Content-Type, when not overridden, is the JSON type if a
\* json payload is given and the form type if only a data payload is given.
C10_PrepareHeaders ==
    last.op = "prepare_headers"
    => LET h == Get(clients[last.slot]).headers
           o == last.opts
           over == IF IsNone(o.headers) THEN EmptyMap ELSE Get(o.headers)
       IN /\ \A k \in DOMAIN over : h[k] = Overridden(over[k])
          /\ ("Content-Type" \notin DOMAIN over /\ o.json # PyNone)
             => h["Content-Type"] = JsonType
          /\ ("Content-Type" \notin DOMAIN over /\ o.json = PyNone
                /\ o.data # PyNone)
             => h["Content-Type"] = FormType

C10_Witness ==
    /\ last.op = "prepare_headers"
    /\ last.opts.json # PyNone
    /\ ~IsNone(last.opts.headers)
    /\ "Content-Type" \in DOMAIN Get(last.opts.headers)
    /\ Get(last.opts.headers)["Content-Type"] = "text/plain"
    /\ Get(clients[last.slot]).headers["Content-Type"] = "text/plain"

\* C11: header_set(k, v) followed by header_set(k, None) on the same client
\* removes the header, so that header_get(k) is the empty string; and
\* header_get of a name the session does not carry returns the empty string
\* without raising and without touching the client.
C11_HeaderRemoved ==
    [][/\ (/\ last.op = "header_set" /\ last.value # PyNone
            /\ last'.op = "header_set" /\ last'.value = PyNone
            /\ last'.slot = last.slot /\ last'.key = last.key)
           => (/\ last'.raised = ""
               /\ Get(clients'[last'.slot]).headers[last'.key] = Absent
               /\ HeaderGet(Get(clients'[last'.slot]).headers, last'.key) = "")
       /\ (/\ last'.op = "header_get"
            /\ \/ last'.key \notin HeaderKeys
               \/ Get(clients[last'.slot]).headers[last'.key] = Absent)
           => (last'.raised = "" /\ last'.text = "" /\ clients' = clients)]_vars

C11_Witness ==
    /\ last.op = "header_set"
    /\ last.key = "Accept"
    /\ last.value = PyNone
    /\ Get(last.before)["Accept"] = "text/plain"
    /\ HeaderGet(Get(clients[last.slot]).headers, "Accept") = ""

----------------------------------------------------------------------------
(* Claims about req (SpecPerform) and the recorder (SpecRecorder) *)

\* C4: req never lets a transport failure out and never answers one with a
\* response: whether client.request raised or the read of the response body
\* raised, req has returned None.
C4_FailureReturnsNone ==
    (last.op = "req" /\ last.out.kind \in {"fail_dispatch", "fail_read"})
    => (last.raised = "" /\ IsNone(last.ret))

C17_CaptureAfterPrepare ==
    (last.op = "req" /\ last.ids = 1)
    => LET rec == dbg.store[dbg.id].req
           sent == Get(last.sent)
           o == last.opts
           over == IF IsNone(o.headers) THEN EmptyMap ELSE Get(o.headers)
       IN /\ rec.headers = PrepareHeaders(Get(last.before), o)
          /\ rec.headers = sent.headers
          /\ rec.cookies = sent.cookies
          /\ \A k \in DOMAIN over : rec.headers[k] = Overridden(over[k])
          /\ ("Content-Type" \notin DOMAIN over /\ o.json # PyNone)
             => rec.headers["Content-Type"] = JsonType

C17_Witness ==
    /\ last.op = "req"
    /\ last.ids = 1
    /\ last.opts.json # PyNone
    /\ Get(last.before)["Content-Type"] = "text/plain"
    /\ dbg.store[dbg.id].req.headers["Content-Type"] = JsonType
    /\ Get(last.sent).headers["Content-Type"] = JsonType
    /\ dbg.store[dbg.id].req.cookies["sid"] = "s1"

\* C18: a req with debug = False, or on a client that has no recorder,
\* leaves the recorder as it was, id counter and saved records alike,
\* whether the transport answered or failed.
C18_RecorderUntouched ==
    [][(/\ last'.op = "req"
        /\ ~(last'.debug /\ Get(clients'[last'.slot]).debugger))
       => dbg' = dbg]_vars

C18_Witness ==
    /\ last.op = "req"
    /\ ~last.debug
    /\ last.out.kind = "response"
    /\ Get(clients[last.slot]).debugger
    /\ dbg.id = DebugBase + 2
    /\ dbg.saves = <<DebugBase + 1, DebugBase + 2, DebugBase + 2>>

\* C19: req never puts the session headers back: when it has returned,
\* after a response or after a failure, the session headers are what
\* prepare_headers made of them, and a req with no payload and no overrides
\* leaves the headers earlier calls left.
C19_HeadersStay ==
    last.op = "req"
    => LET h == Get(clients[last.slot]).headers
           o == last.opts
       IN /\ h = PrepareHeaders(Get(last.before), o)
          /\ (o.json # PyNone /\ IsNone(o.headers)) => h["Content-Type"] = JsonType
          /\ (o.json = PyNone /\ o.data = PyNone /\ IsNone(o.headers))
             => h = Get(last.before)

C19_Witness ==
    /\ last.op = "req"
    /\ last.opts = NoOptions
    /\ last.out.kind = "fail_dispatch"
    /\ Get(last.before)["Content-Type"] = JsonType
    /\ Get(clients[last.slot]).headers["Content-Type"] = JsonType

----------------------------------------------------------------------------
(* Claims about the statements of one req call after another (SpecSteps) *)

\* the response half of a record is at the values HttpResponse declares
IsZero(res) ==
    /\ res.code = 200
    /\ ~res.success
    /\ res.url = ""
    /\ res.text = << >>
    /\ \A k \in DOMAIN res.headers : res.headers[k] = Absent
    /\ \A k \in DOMAIN res.cookies : res.cookies[k] = Absent
    /\ res.json = EmptyDict

----------------------------------------------------------------------------
(* Claims about req calls of separate threads (SpecThreads) *)

\* C13: whatever the interleaving of debug-enabled req calls made by two
\* threads on two different clients, each call has an id of its own, its
\* request record is saved under that id, and once the call has returned a
\* response the record saved under its id is the full record of that call.
C13_OwnRecordPerCall ==
    /\ \A t, u \in Threads :
         (t # u /\ threads[t].pc \notin {"idle", "id_add"}
                /\ threads[u].pc \notin {"idle", "id_add"})
         => threads[t].id # threads[u].id
    /\ \A t \in Threads :
         threads[t].pc \in {"dispatch", "save_res", "done"}
         => (/\ threads[t].id \in DOMAIN dbg.store
             /\ dbg.store[threads[t].id].req = Get(threads[t].captured).req)
    /\ \A t \in Threads :
         (threads[t].pc = "done" /\ ~IsNone(threads[t].response))
         => dbg.store[threads[t].id] = Get(threads[t].captured)

====
